---- MODULE Spec2Model ----
(***************************************************************************)
(* Whisper topics (whisper/topic.go): topic derivation (NewTopic,          *)
(* NewTopics) and the positional topic filter (newTopicMatcher, Matches).  *)
(*                                                                         *)
(* Go slices are modelled as sequences; a Go index i (0-based) is the      *)
(* sequence index i + 1.  A map[Topic]struct{} is modelled as the set of   *)
(* its keys, len(map) as the set's cardinality.                            *)
(***************************************************************************)
EXTENDS Naturals, Integers, Sequences, FiniteSets, TLC

\* ------------------------------------------------------------------ bounds
\* conditions given to newTopicMatcher
MaxConds == 2
\* topics listed in one condition
MaxCondLen == 2
\* topics of a message beyond the longest filter
MaxExtra == 1
\* byte strings given to one NewTopics call
MaxData == 2
\* bytes of one data element
MaxDataLen == 1

\* ------------------------------------------------------------ Topic, hash
\* type Topic [4]byte
TopicLen == 4

\* the bytes data elements are made of
DataBytes == {97, 98}

RECURSIVE SeqsUpTo(_, _)
\* every sequence over S of length at most n
SeqsUpTo(S, n) ==
    IF n = 0 THEN {<<>>}
    ELSE LET shorter == SeqsUpTo(S, n - 1)
         IN  shorter \cup {Append(s, x) : s \in {q \in shorter : Len(q) = n - 1}, x \in S}

\* crypto.Keccak256 on the inputs the model uses: the digests of Keccak-256
\* (the original Keccak padding), 32 bytes each
Keccak256 ==
    <<>>       :> <<197,210,70,1,134,247,35,60,146,126,125,178,220,199,3,192,229,0,182,83,202,130,39,59,123,250,216,4,93,133,164,112>> @@
    <<97>>     :> <<58,194,37,22,141,245,66,18,162,92,28,1,253,53,190,191,234,64,143,218,194,227,29,221,111,128,164,187,249,165,241,203>> @@
    <<98>>     :> <<181,85,61,227,21,224,237,245,4,217,21,10,248,45,175,165,196,102,127,166,24,237,10,111,25,198,155,65,22,108,85,16>> @@
    <<97,97>>  :> <<223,165,124,84,47,234,41,237,41,44,239,12,225,53,208,226,33,137,54,95,165,154,190,220,122,49,11,117,26,206,104,79>> @@
    <<97,98>>  :> <<103,250,211,191,161,224,50,27,208,33,202,128,92,225,72,118,229,10,202,200,202,133,50,237,168,203,249,36,218,86,81,96>> @@
    <<98,97>>  :> <<212,13,30,121,212,150,240,50,27,183,199,113,209,26,33,164,189,110,153,128,38,254,97,208,101,12,124,103,186,212,156,60>> @@
    <<98,98>>  :> <<184,166,131,35,255,53,15,7,96,98,134,20,130,190,222,159,250,251,28,141,171,67,135,76,149,88,206,54,192,218,113,36>> @@
    <<65,49>>  :> <<58,189,126,92,84,182,98,164,254,50,149,210,140,68,106,151,55,91,105,215,44,63,131,174,53,75,30,58,190,124,72,44>> @@
    <<65,50>>  :> <<73,243,4,56,97,124,68,221,120,82,127,54,177,244,233,40,109,44,178,25,217,103,231,224,111,119,169,60,195,64,205,11>> @@
    <<65,51>>  :> <<32,164,60,182,80,85,22,51,143,2,219,170,30,212,92,225,2,2,41,80,153,0,95,4,229,123,31,31,57,3,215,169>> @@
    <<66>>     :> <<31,103,91,255,7,81,95,93,249,103,55,25,78,169,69,195,108,65,231,180,252,239,48,123,124,212,208,230,2,166,145,17>> @@
    <<68,49>>  :> <<17,17,80,18,7,160,213,132,140,216,19,22,226,231,13,244,59,15,220,61,251,46,249,193,33,55,68,226,185,44,181,61>> @@
    <<68,50>>  :> <<216,114,110,200,250,92,214,97,70,93,165,188,157,120,117,90,252,67,134,214,233,50,147,135,133,79,235,242,52,122,181,16>> @@
    <<68,51>>  :> <<24,149,117,220,206,14,41,66,116,32,187,154,222,72,165,114,254,23,5,120,235,190,111,103,242,176,205,101,125,221,6,65>> @@
    <<88>>     :> <<85,12,100,161,80,49,195,6,68,84,193,154,220,98,67,166,18,44,19,138,36,46,170,9,141,165,11,177,20,252,141,86>>

\* Go's builtin copy(dst, src): overwrites the first min(len(dst), len(src))
\* elements of dst
copy(dst, src) ==
    [k \in 1..Len(dst) |-> IF k <= Len(src) THEN src[k] ELSE dst[k]]

\* the all-zero topic: [4]byte{}
ZeroTopic == [k \in 1..TopicLen |-> 0]

\* mutant: the prefix is taken from the end of the digest
NewTopicSuffix(data) ==
    copy(ZeroTopic, SubSeq(Keccak256[data], Len(Keccak256[data]) - TopicLen + 1, Len(Keccak256[data])))

\* func NewTopic(data []byte) Topic
NewTopic(data) ==
    LET prefix == ZeroTopic
    IN  copy(prefix, SubSeq(Keccak256[data], 1, 4))

\* ------------------------------------------------------------ topicMatcher
\* mutant: no condition is a wild-card
NeverWildcard(condition) == FALSE

\* mutant: a condition holding the zero topic is a wild-card too
ZeroIsWildcard(condition) == Cardinality(condition) = 0 \/ ZeroTopic \in condition

\* len(self.conditions[i]) > 0 fails: the condition is a wild-card
IsWildcard(condition) == ~(Cardinality(condition) > 0)

\* mutant: only one of the condition's topics is found
MapHasOneKey(m, topic) == m # {} /\ topic = CHOOSE x \in m : TRUE

\* _, ok := self.conditions[i][topics[i]]
MapHasKey(m, topic) == topic \in m

\* mutant: the length test is skipped
NeverTooShort(conds, topics) == FALSE

\* mutant: the lengths must be equal
LengthDiffers(conds, topics) == Len(conds) # Len(topics)

\* mutant: >= for >
NotLonger(conds, topics) == Len(conds) >= Len(topics)

\* if len(self.conditions) > len(topics) { return false }
TooShort(conds, topics) == Len(conds) > Len(topics)

\* mutant: the last condition is never tested
LoopCondShort(conds, topics, k) == k < Len(topics) /\ k < Len(conds) - 1

\* the for statement's condition: i < len(topics) && i < len(self.conditions)
LoopCond(conds, topics, k) == k < Len(topics) /\ k < Len(conds)

\* the loop body returns false at position k
Mismatch(conds, topics, k) ==
    /\ ~IsWildcard(conds[k + 1])
    /\ ~MapHasKey(conds[k + 1], topics[k + 1])

RECURSIVE MatchesFrom(_, _, _)
\* the loop of Matches from index k on
MatchesFrom(conds, topics, k) ==
    IF LoopCond(conds, topics, k)
    THEN IF Mismatch(conds, topics, k) THEN FALSE
         ELSE MatchesFrom(conds, topics, k + 1)
    ELSE TRUE

\* func (self *topicMatcher) Matches(topics []Topic) bool, one call run alone
Matches(conds, topics) ==
    IF TooShort(conds, topics) THEN FALSE ELSE MatchesFrom(conds, topics, 0)

RECURSIVE InsertAll(_, _, _)
\* for _, topic := range condition { matcher[i][topic] = struct{}{} }
InsertAll(m, condition, k) ==
    IF k < Len(condition)
    THEN InsertAll(m \cup {condition[k + 1]}, condition, k + 1)
    ELSE m

\* ------------------------------------------------------------------ inputs
T1 == NewTopic(<<97>>)
T2 == NewTopic(<<98>>)
TopicA1 == NewTopic(<<65,49>>)
TopicA2 == NewTopic(<<65,50>>)
TopicA3 == NewTopic(<<65,51>>)
TopicB  == NewTopic(<<66>>)
TopicD1 == NewTopic(<<68,49>>)
TopicD2 == NewTopic(<<68,50>>)
TopicD3 == NewTopic(<<68,51>>)
TopicX  == NewTopic(<<88>>)

\* the sample topic matcher of the topicMatcher comment
SampleFilter == << <<TopicA1, TopicA2, TopicA3>>, <<TopicB>>, <<>>, <<TopicD1, TopicD2>> >>
SampleConditions == << {TopicA1, TopicA2, TopicA3}, {TopicB}, {}, {TopicD1, TopicD2} >>
SampleTopics ==
    {TopicA1, TopicA2, TopicA3, TopicB, TopicD1, TopicD2, TopicD3, TopicX, ZeroTopic}
SampleCandidates ==
    UNION { { <<TopicA1, TopicB, x, TopicD1>>, <<TopicA1, TopicB, x, TopicD3>>,
              <<TopicA1, TopicB, x>> } : x \in SampleTopics }

\* topics a bounded filter lists, and topics a message carries
CondTopics == {ZeroTopic, T1}
MsgTopics == {ZeroTopic, T1, T2}

FilterInputs ==
    SeqsUpTo(SeqsUpTo(CondTopics, MaxCondLen), MaxConds) \cup {SampleFilter}
CandidateInputs ==
    SeqsUpTo(MsgTopics, MaxConds + MaxExtra) \cup SampleCandidates
DataInputs == SeqsUpTo(SeqsUpTo(DataBytes, MaxDataLen), MaxData)

Callers == {"c1", "c2"}

\* ------------------------------------------------------------------- state
VARIABLES
    pc,          \* "start" | "compiling" | "compiled": newTopicMatcher's progress
    nm_topics,   \* newTopicMatcher: the argument topics
    matcher,     \* newTopicMatcher: the local matcher
    nm_i,        \* newTopicMatcher: the loop index i
    conditions,  \* topicMatcher.conditions of the matcher returned
    m_pc,        \* per caller, Matches: "idle" | "loop" | "done"
    m_topics,    \* per caller, Matches: the argument topics
    m_i,         \* per caller, Matches: the loop index i
    m_ret,       \* per caller, Matches: the value returned
    nt_pc,       \* NewTopics: "idle" | "loop" | "done"
    data,        \* NewTopics: the argument data
    topics,      \* NewTopics: the local topics
    i,           \* NewTopics: the loop index i
    derived      \* every <<data, topic>> a NewTopic call has returned

compileVars == <<pc, nm_topics, matcher, nm_i, conditions>>
matchVars == <<m_pc, m_topics, m_i, m_ret>>
deriveVars == <<nt_pc, data, topics, i, derived>>
vars == <<compileVars, matchVars, deriveVars>>

Init ==
    /\ pc = "start"
    /\ nm_topics = <<>>
    /\ matcher = <<>>
    /\ nm_i = 0
    /\ conditions = <<>>
    /\ m_pc = [c \in Callers |-> "idle"]
    /\ m_topics = [c \in Callers |-> <<>>]
    /\ m_i = [c \in Callers |-> 0]
    /\ m_ret = [c \in Callers |-> FALSE]
    /\ nt_pc = "idle"
    /\ data = <<>>
    /\ topics = <<>>
    /\ i = 0
    /\ derived = {}

\* --------------------------------------------------------- newTopicMatcher
\* line 80: matcher := make([]map[Topic]struct{}, len(topics)), all nil maps
CallNewTopicMatcher(f) ==
    /\ pc = "start"
    /\ pc' = "compiling"
    /\ nm_topics' = f
    /\ matcher' = [k \in 1..Len(f) |-> {}]
    /\ nm_i' = 0
    /\ UNCHANGED <<conditions, matchVars, deriveVars>>

\* lines 81-86: one iteration of the outer loop
CompileStep ==
    /\ pc = "compiling"
    /\ nm_i < Len(nm_topics)
    /\ matcher' = [matcher EXCEPT ![nm_i + 1] = InsertAll({}, nm_topics[nm_i + 1], 0)]
    /\ nm_i' = nm_i + 1
    /\ UNCHANGED <<pc, nm_topics, conditions, matchVars, deriveVars>>

\* line 87: return &topicMatcher{conditions: matcher}; the locals go
CompileReturn ==
    /\ pc = "compiling"
    /\ ~(nm_i < Len(nm_topics))
    /\ conditions' = matcher
    /\ pc' = "compiled"
    /\ nm_topics' = <<>>
    /\ matcher' = <<>>
    /\ nm_i' = 0
    /\ UNCHANGED <<matchVars, deriveVars>>

\* ----------------------------------------------------------------- Matches
\* lines 91-95: the call and the length test
CallMatches(c, t) ==
    /\ pc = "compiled"
    /\ m_pc[c] = "idle"
    /\ m_topics' = [m_topics EXCEPT ![c] = t]
    /\ IF TooShort(conditions, t)
       THEN /\ m_pc' = [m_pc EXCEPT ![c] = "done"]
            /\ m_ret' = [m_ret EXCEPT ![c] = FALSE]
            /\ UNCHANGED m_i
       ELSE /\ m_pc' = [m_pc EXCEPT ![c] = "loop"]
            /\ m_i' = [m_i EXCEPT ![c] = 0]
            /\ UNCHANGED m_ret
    /\ UNCHANGED <<compileVars, deriveVars>>

\* mutant: a lookup that misses stores the topic in the condition
IterateInserting(c) ==
    /\ m_pc[c] = "loop"
    /\ IF LoopCond(conditions, m_topics[c], m_i[c])
       THEN IF Mismatch(conditions, m_topics[c], m_i[c])
            THEN /\ m_pc' = [m_pc EXCEPT ![c] = "done"]
                 /\ m_ret' = [m_ret EXCEPT ![c] = FALSE]
                 /\ conditions' = [conditions EXCEPT ![m_i[c] + 1] = @ \cup {m_topics[c][m_i[c] + 1]}]
                 /\ UNCHANGED m_i
            ELSE /\ m_i' = [m_i EXCEPT ![c] = @ + 1]
                 /\ UNCHANGED <<m_pc, m_ret, conditions>>
       ELSE /\ m_pc' = [m_pc EXCEPT ![c] = "done"]
            /\ m_ret' = [m_ret EXCEPT ![c] = TRUE]
            /\ UNCHANGED <<m_i, conditions>>
    /\ UNCHANGED <<pc, nm_topics, matcher, nm_i, m_topics, deriveVars>>

\* lines 97-104: one test of the loop condition, with the body or the final
\* return true
Iterate(c) ==
    /\ m_pc[c] = "loop"
    /\ IF LoopCond(conditions, m_topics[c], m_i[c])
       THEN IF Mismatch(conditions, m_topics[c], m_i[c])
            THEN /\ m_pc' = [m_pc EXCEPT ![c] = "done"]
                 /\ m_ret' = [m_ret EXCEPT ![c] = FALSE]
                 /\ UNCHANGED m_i
            ELSE /\ m_i' = [m_i EXCEPT ![c] = @ + 1]
                 /\ UNCHANGED <<m_pc, m_ret>>
       ELSE /\ m_pc' = [m_pc EXCEPT ![c] = "done"]
            /\ m_ret' = [m_ret EXCEPT ![c] = TRUE]
            /\ UNCHANGED m_i
    /\ UNCHANGED <<compileVars, m_topics, deriveVars>>

\* the caller has taken the result; it may call again
Return(c) ==
    /\ m_pc[c] = "done"
    /\ m_pc' = [m_pc EXCEPT ![c] = "idle"]
    /\ m_topics' = [m_topics EXCEPT ![c] = <<>>]
    /\ m_i' = [m_i EXCEPT ![c] = 0]
    /\ m_ret' = [m_ret EXCEPT ![c] = FALSE]
    /\ UNCHANGED <<compileVars, deriveVars>>

\* --------------------------------------------------------------- NewTopics
\* line 41: topics := make([]Topic, len(data)), all zero topics
CallNewTopics(d) ==
    /\ nt_pc = "idle"
    /\ nt_pc' = "loop"
    /\ data' = d
    /\ topics' = [k \in 1..Len(d) |-> ZeroTopic]
    /\ i' = 0
    /\ UNCHANGED <<derived, compileVars, matchVars>>

\* mutant: the topic is appended to the slice made with len(data) elements
AppendTopic(ts, k, topic) == Append(ts, topic)

\* line 43: topics[i] = ...
StoreTopic(ts, k, topic) == [ts EXCEPT ![k + 1] = topic]

\* lines 42-44: one iteration of the range loop
NewTopicsStep ==
    /\ nt_pc = "loop"
    /\ i < Len(data)
    /\ topics' = StoreTopic(topics, i, NewTopic(data[i + 1]))
    /\ derived' = derived \cup {<<data[i + 1], NewTopic(data[i + 1])>>}
    /\ i' = i + 1
    /\ UNCHANGED <<nt_pc, data, compileVars, matchVars>>

\* line 45: return topics
NewTopicsReturn ==
    /\ nt_pc = "loop"
    /\ ~(i < Len(data))
    /\ nt_pc' = "done"
    /\ UNCHANGED <<data, topics, i, derived, compileVars, matchVars>>

\* the caller has taken the topics; NewTopics may be called again
NewTopicsNext ==
    /\ nt_pc = "done"
    /\ nt_pc' = "idle"
    /\ data' = <<>>
    /\ topics' = <<>>
    /\ i' = 0
    /\ UNCHANGED <<derived, compileVars, matchVars>>

\* ---------------------------------------------------------- specifications
\* one subscription, one caller of Matches at a time
Next ==
    \/ \E f \in FilterInputs : CallNewTopicMatcher(f)
    \/ CompileStep
    \/ CompileReturn
    \/ \E t \in CandidateInputs : CallMatches("c1", t)
    \/ Iterate("c1")
    \/ Return("c1")

Spec == Init /\ [][Next]_vars

\* the sample matcher, evaluated by two callers whose steps interleave
NextConc ==
    \/ CallNewTopicMatcher(SampleFilter)
    \/ CompileStep
    \/ CompileReturn
    \/ \E c \in Callers : \E t \in SampleCandidates : CallMatches(c, t)
    \/ \E c \in Callers : Iterate(c)
    \/ \E c \in Callers : Return(c)

SpecConc == Init /\ [][NextConc]_vars

\* the deriver
NextDerive ==
    \/ \E d \in DataInputs : CallNewTopics(d)
    \/ NewTopicsStep
    \/ NewTopicsReturn
    \/ NewTopicsNext

SpecDerive == Init /\ [][NextDerive]_vars

TypeOK ==
    /\ pc \in {"start", "compiling", "compiled"}
    /\ \A c \in Callers : m_pc[c] \in {"idle", "loop", "done"}
    /\ nt_pc \in {"idle", "loop", "done"}

\* ------------------------------------------------------------------ claims
\* a caller whose Matches call has returned
Returned(c) == m_pc[c] = "done"

\* newTopicMatcher has run its loop and is about to return matcher
Built == pc = "compiling" /\ nm_i = Len(nm_topics)

\* the candidate with the topics at Go indexes a and b exchanged
Swap(t, a, b) == [t EXCEPT ![a + 1] = t[b + 1], ![b + 1] = t[a + 1]]

ExtraInputs == SeqsUpTo(MsgTopics, MaxExtra)

\* C1: Matches returns true iff N <= M and every position i < N has an empty
\* condition or candidate[i] in condition i; for the sample conditions,
\* [A1,B,X,D1] matches for any X, [A1,B,X,D3] and [A1,B,X] do not.
C1_MatchesIff ==
    \A c \in Callers : Returned(c) =>
        LET t == m_topics[c]
            N == Len(conditions)
            M == Len(t)
        IN  /\ m_ret[c] = (/\ N <= M
                           /\ \A k \in 0..(N - 1) :
                                \/ conditions[k + 1] = {}
                                \/ t[k + 1] \in conditions[k + 1])
            /\ conditions = SampleConditions =>
                 \A x \in SampleTopics :
                    /\ t = <<TopicA1, TopicB, x, TopicD1>> => m_ret[c] = TRUE
                    /\ t = <<TopicA1, TopicB, x, TopicD3>> => m_ret[c] = FALSE
                    /\ t = <<TopicA1, TopicB, x>> => m_ret[c] = FALSE

C1_Witness ==
    /\ conditions = SampleConditions
    /\ Returned("c1")
    /\ m_topics["c1"] = <<TopicA1, TopicB, TopicX, TopicD1>>
    /\ m_ret["c1"] = TRUE

\* C2: with more conditions than topics (N > M) Matches returns false, also
\* when every condition is a wildcard and when the candidate list is empty.
C2_TooShortIsFalse ==
    \A c \in Callers :
        (Returned(c) /\ Len(conditions) > Len(m_topics[c])) => m_ret[c] = FALSE

C2_Witness ==
    /\ Returned("c1")
    /\ Len(conditions) = 2
    /\ \A k \in 1..Len(conditions) : conditions[k] = {}
    /\ Len(m_topics["c1"]) = 1
    /\ m_ret["c1"] = FALSE

\* C3: for a candidate with at least N topics the result is that of the
\* candidate followed by any extra topics and that of its first N topics, and
\* the loop index never passes N.
C3_ExtraTopicsIgnored ==
    \A c \in Callers :
        /\ (Returned(c) /\ Len(m_topics[c]) >= Len(conditions)) =>
              /\ \A extra \in ExtraInputs :
                    Matches(conditions, m_topics[c] \o extra) = m_ret[c]
              /\ Matches(conditions, SubSeq(m_topics[c], 1, Len(conditions))) = m_ret[c]
        /\ m_pc[c] = "loop" => m_i[c] <= Len(conditions)

C3_Witness ==
    LET N == Len(conditions)
        t == m_topics["c1"]
    IN  /\ Returned("c1")
        /\ N = 2
        /\ Len(t) > N
        /\ conditions[N] # {}
        /\ t[N + 1] \notin conditions[N]
        /\ m_ret["c1"] = TRUE

\* C4: a condition compiled from an empty slice is the empty set, a position
\* with the empty set accepts every topic (changing the candidate there never
\* changes the result), and the single condition {} matches every [T].
C4_EmptyIsWildcard ==
    /\ Built => \A k \in 1..Len(nm_topics) : nm_topics[k] = <<>> => matcher[k] = {}
    /\ \A c \in Callers : Returned(c) =>
          LET t == m_topics[c]
          IN  /\ \A k \in 0..(Len(conditions) - 1) :
                    (k < Len(t) /\ conditions[k + 1] = {}) =>
                        \A x \in MsgTopics \cup SampleTopics :
                            Matches(conditions, [t EXCEPT ![k + 1] = x]) = m_ret[c]
              /\ (conditions = <<{}>> /\ Len(t) = 1) => m_ret[c] = TRUE

C4_Witness ==
    /\ conditions = <<{}>>
    /\ Returned("c1")
    /\ m_topics["c1"] = <<T2>>
    /\ m_ret["c1"] = TRUE

\* C5: a matcher compiled from zero conditions matches every candidate, the
\* empty one included.
C5_NoConditionsMatchAll ==
    \A c \in Callers : (Returned(c) /\ conditions = <<>>) => m_ret[c] = TRUE

C5_Witness ==
    /\ pc = "compiled"
    /\ conditions = <<>>
    /\ Returned("c1")
    /\ m_topics["c1"] = <<>>
    /\ m_ret["c1"] = TRUE

\* C6: once compiled, no step (of interleaved Matches calls) changes the
\* matcher's conditions or a running call's candidate, and every call returns
\* what the call run alone on the matcher returns.
C6_MatcherImmutable ==
    /\ [][/\ pc = "compiled" => conditions' = conditions
          /\ \A c \in Callers :
                (m_pc[c] # "idle" /\ m_pc'[c] # "idle") => m_topics'[c] = m_topics[c]]_vars
    /\ [](\A c \in Callers : Returned(c) => m_ret[c] = Matches(conditions, m_topics[c]))

C6_Witness ==
    /\ m_pc["c1"] = "loop"
    /\ m_i["c1"] = 2
    /\ Returned("c2")
    /\ m_ret["c2"] = FALSE
    /\ Len(m_topics["c2"]) = 4
    /\ m_topics["c1"] = m_topics["c2"]

\* C7: NewTopics returns one topic per data element, in order: the k-th is
\* NewTopic of the k-th element, for empty and duplicate elements too.
C7_NewTopicsElementwise ==
    nt_pc = "done" =>
        /\ Len(topics) = Len(data)
        /\ \A k \in 1..Len(data) : topics[k] = NewTopic(data[k])

C7_Witness ==
    /\ nt_pc = "done"
    /\ Len(data) = 2
    /\ data[1] = data[2]
    /\ Len(topics) = 2

\* C8: every NewTopic call returns the first 4 bytes of the digest of its
\* input, so calls with the same input return the same topic; the empty input
\* has a topic too.
C8_NewTopicPrefixOfHash ==
    /\ \A r \in derived : r[2] = SubSeq(Keccak256[r[1]], 1, TopicLen)
    /\ \A r1, r2 \in derived : r1[1] = r2[1] => r1[2] = r2[2]
    /\ \A k \in 1..i : <<data[k], topics[k]>> \in derived

C8_Witness ==
    /\ nt_pc = "done"
    /\ data = << <<>>, <<>> >>
    /\ topics[1] = <<197, 210, 70, 1>>
    /\ topics[Len(topics)] = topics[1]
    /\ Cardinality({r \in derived : r[1] = <<>>}) = 1

\* C9: exchanging candidate[a] and candidate[b] (a, b < N <= M) leaves the
\* result as it is when each of the two conditions is a wildcard or holds both
\* topics.
C9_SwapWithinAccepted ==
    \A c \in Callers : (Returned(c) /\ Len(m_topics[c]) >= Len(conditions)) =>
        LET t == m_topics[c]
            N == Len(conditions)
        IN  \A a, b \in 0..(N - 1) :
                (/\ conditions[a + 1] = {} \/ {t[a + 1], t[b + 1]} \subseteq conditions[a + 1]
                 /\ conditions[b + 1] = {} \/ {t[a + 1], t[b + 1]} \subseteq conditions[b + 1])
                => Matches(conditions, Swap(t, a, b)) = m_ret[c]

\* one exchange within the accepted topics keeps the result, another changes it
C9_Witness ==
    /\ conditions = SampleConditions
    /\ Returned("c1")
    /\ m_topics["c1"] = <<TopicA1, TopicB, TopicA2, TopicD1>>
    /\ m_ret["c1"] = TRUE
    /\ Matches(conditions, Swap(m_topics["c1"], 0, 2)) = TRUE
    /\ Matches(conditions, Swap(m_topics["c1"], 0, 1)) = FALSE

====
